---- MODULE Spec2Model ----
(***************************************************************************)
(* Games Download API (src/main.py): the request handlers create_game,     *)
(* list_games, seed_sample_games and test_database over the "game"         *)
(* collection of a document store reached through the persistence gateway  *)
(* (create_document / get_documents, module `database`).                   *)
(*                                                                         *)
(* Text is modelled as sequences of one-character strings so that regular  *)
(* expression search, case folding and slicing are computed, not assumed.  *)
(* The emoji of the diagnostics strings are written as the ASCII tags      *)
(* [OK], [X] and [!].                                                      *)
(***************************************************************************)
EXTENDS Integers, Sequences, FiniteSets, TLC

VARIABLES db, store, nextId, pc, loc, last, created, seedAborted

vars == <<db, store, nextId, pc, loc, last, created, seedAborted>>

(***************************************************************************)
(* Bounds of the model.                                                    *)
(***************************************************************************)
\* create_game requests accepted in one behaviour
MaxCreates == 2
\* length of the long failure message (longer than the 50 characters kept)
LongMsgLen == 51
\* number of collections the store reports besides "game"
ManyCollections == 11

\* worker processes serving requests against the same store
Procs == {1, 2}

(***************************************************************************)
(* Program constants.                                                      *)
(***************************************************************************)
DefaultLimit == 50
SeedListLimit == 50
ProbeLimit == 1
MaxCollectionsShown == 10
MaxErrChars == 50
ServerError == 500

\* An optional value (Python's None or a value): <<>> or <<value>>.
None == <<>>
Some(v) == <<v>>
Min(a, b) == IF a < b THEN a ELSE b
Take(s, n) == SubSeq(s, 1, Min(n, Len(s)))

(***************************************************************************)
(* Text.                                                                   *)
(***************************************************************************)
UpperCase == <<"A","B","C","D","E","F","G","H","I","J","K","L","M",
               "N","O","P","Q","R","S","T","U","V","W","X","Y","Z">>
LowerCase == <<"a","b","c","d","e","f","g","h","i","j","k","l","m",
               "n","o","p","q","r","s","t","u","v","w","x","y","z">>
UpperSet == {UpperCase[k] : k \in DOMAIN UpperCase}
LowerOf == [c \in UpperSet |-> LowerCase[CHOOSE k \in DOMAIN UpperCase : UpperCase[k] = c]]
Lower(c) == IF c \in UpperSet THEN LowerOf[c] ELSE c

HexDigits == <<"0","1","2","3","4","5","6","7","8","9","a","b","c","d","e","f">>
RECURSIVE HexOf(_, _)
HexOf(n, width) ==
    IF width = 0 THEN <<>>
    ELSE Append(HexOf(n \div 16, width - 1), HexDigits[(n % 16) + 1])

\* str(d.get("_id")): an ObjectId prints as the 24 hexadecimal digits of its
\* 12 bytes; a missing key gives None, which prints as the text "None".
ObjectIdStr(oid) ==
    IF oid = None THEN <<"N","o","n","e">> ELSE HexOf(oid[1], 24)

\* A regular expression search (pattern anywhere in s) for patterns made of
\* literal characters and the wildcard "."; option "i" folds case.
RegexCharMatches(pch, c, options) ==
    IF pch = "." THEN c # "\n"
    ELSE IF options = "i" THEN Lower(pch) = Lower(c)
    ELSE pch = c
RegexSearch(pattern, s, options) ==
    \E off \in 0..(Len(s) - Len(pattern)) :
        \A j \in 1..Len(pattern) : RegexCharMatches(pattern[j], s[off + j], options)

(***************************************************************************)
(* Records.                                                                *)
(***************************************************************************)
GameFields == {"title", "description", "genre", "platform", "size_gb",
               "thumbnail", "screenshots", "download_url"}

\* size_gb is written in tenths of a gigabyte (12.5 -> 125).
Game(title, description, genre, platform, size_gb, thumbnail, screenshots, download_url) ==
    [title |-> title, description |-> description, genre |-> genre,
     platform |-> platform, size_gb |-> size_gb, thumbnail |-> thumbnail,
     screenshots |-> screenshots, download_url |-> download_url]

samples ==
    << Game(<<"S","t","a","r","l","i","g","h","t"," ","O","d","y","s","s","e","y">>,
            "Explore a vast galaxy in this open-world space adventure.",
            <<"A","d","v","e","n","t","u","r","e">>, "PC", 125,
            "https://images.unsplash.com/photo-1586125674857-4c4a1b3e72d0",
            <<"https://images.unsplash.com/photo-1542751110-97427bbecf20",
              "https://images.unsplash.com/photo-1542831371-29b0f74f9713">>,
            "https://example.com/download/starlight-odyssey"),
       Game(<<"N","e","o","n"," ","D","r","i","f","t">>,
            "High-speed neon-soaked racing in a cyberpunk city.",
            <<"R","a","c","i","n","g">>, "PC", 82,
            "https://images.unsplash.com/photo-1511512578047-dfb367046420",
            <<"https://images.unsplash.com/photo-1535223289827-42f1e9919769",
              "https://images.unsplash.com/photo-1483721310020-03333e577078">>,
            "https://example.com/download/neon-drift"),
       Game(<<"E","c","h","o","e","s"," ","o","f"," ","E","l","d","o","r","i","a">>,
            "A story-driven RPG with tactical combat and rich lore.",
            <<"R","P","G">>, "PC", 250,
            "https://images.unsplash.com/photo-1520975922371-24b89f8378fd",
            <<"https://images.unsplash.com/photo-1486406146926-c627a92ad1ab">>,
            "https://example.com/download/echoes-of-eldoria") >>

\* Request bodies offered to POST /api/games.
DrMario ==
    Game(<<"D","r","."," ","M","a","r","i","o">>, "Pills.",
         <<"P","u","z","z","l","e">>, "NES", 1, "https://example.com/t.png",
         <<>>, "https://example.com/download/dr-mario")
NeonWhite ==
    Game(<<"N","E","O","N"," ","W","h","i","t","e">>, "Speedrun.",
         <<"A","c","t","i","o","n">>, "PC", 40, "https://example.com/n.png",
         <<>>, "https://example.com/download/neon-white")
Payloads == { DrMario, NeonWhite }

\* Search terms offered as ?q= (None: the parameter is absent).
Terms == { None, Some(<<>>), Some(<<"n","e","o","n">>), Some(<<"r","p","g">>),
           Some(<<".">>) }

\* Values offered as ?limit= (None: the parameter is absent).  The parameter
\* is a plain int: nothing keeps it above zero.
Limits == { None, Some(-1), Some(0), Some(1), Some(2) }

(***************************************************************************)
(* Failures of the store.                                                  *)
(***************************************************************************)
Exception(msg) == [raised |-> TRUE, msg |-> msg]
NoFault == [raised |-> FALSE, msg |-> <<>>]
str(e) == e.msg
DbUnavailable == Exception(<<"D","a","t","a","b","a","s","e"," ","n","o","t"," ",
                             "a","v","a","i","l","a","b","l","e">>)
\* What a call on a connected handle can meet: no failure, or a failure
\* whose message is longer than MaxErrChars.
Faults == { NoFault, Exception([k \in 1..LongMsgLen |-> "x"]) }

(***************************************************************************)
(* Persistence gateway (module `database`).                                *)
(***************************************************************************)
Connected == "Connected"
Disconnected == "Disconnected"

\* The filter language the gateway hands to the store: {} matches every
\* document; {"$or": [...]} matches when one clause does; a clause
\* {field: {"$regex": r, "$options": o}} is a regular expression search.
MatchesClause(d, clause) ==
    \E f \in DOMAIN clause :
        /\ f \in DOMAIN d
        /\ RegexSearch(clause[f]["$regex"], d[f], clause[f]["$options"])
MatchesFilter(d, filter_dict) ==
    IF DOMAIN filter_dict = {} THEN TRUE
    ELSE \E k \in DOMAIN filter_dict["$or"] : MatchesClause(d, filter_dict["$or"][k])

\* create_document(collection_name, data): the result of one call on the
\* collection `coll` with next identifier `oid`, meeting store failure `fault`.
create_document(handle, coll, oid, fault, data) ==
    IF handle = Disconnected
    THEN [raised |-> TRUE, exc |-> DbUnavailable, coll |-> coll, id |-> <<>>]
    ELSE IF fault.raised
    THEN [raised |-> TRUE, exc |-> fault, coll |-> coll, id |-> <<>>]
    ELSE [raised |-> FALSE, exc |-> NoFault,
          coll |-> Append(coll, data @@ ("_id" :> oid)),
          id |-> ObjectIdStr(Some(oid))]

\* A read is capped at `limit` results.  What a limit below 1 means is not
\* laid down: the store may return nothing ("cap"), take it as no limit
\* ("unlimited") or cap at its magnitude ("magnitude").
Readings(limit) == IF limit >= 1 THEN {"cap"} ELSE {"cap", "unlimited", "magnitude"}
Capped(docs, limit, reading) ==
    IF limit >= 1 \/ reading = "cap" THEN Take(docs, limit)
    ELSE IF reading = "unlimited" THEN docs
    ELSE Take(docs, 0 - limit)

\* get_documents(collection_name, filter_dict, limit)
get_documents(handle, coll, fault, filter_dict, limit, reading) ==
    IF handle = Disconnected
    THEN [raised |-> TRUE, exc |-> DbUnavailable, docs |-> <<>>]
    ELSE IF fault.raised
    THEN [raised |-> TRUE, exc |-> fault, docs |-> <<>>]
    ELSE [raised |-> FALSE, exc |-> NoFault,
          docs |-> Capped(SelectSeq(coll, LAMBDA d : MatchesFilter(d, filter_dict)),
                          limit, reading)]

(***************************************************************************)
(* Request handlers (src/main.py).                                         *)
(***************************************************************************)
\* What a finished request answered: the handler, its arguments, the HTTP
\* status, the error detail, the body, and what the call saw and did.
Response(op, req, status, detail, body, obs) ==
    [op |-> op, req |-> req, status |-> status, detail |-> detail,
     body |-> body, obs |-> obs]
NoObs == [existing |-> <<>>, inserted |-> 0]
NoReq == [q |-> None, limit |-> None]

\* Variant: the handler answers a fixed text instead of str(e).
HTTPException_generic(op, e, obs) ==
    Response(op, NoReq, ServerError,
             <<"I","n","t","e","r","n","a","l"," ","e","r","r","o","r">>, <<>>, obs)

\* except Exception as e: raise HTTPException(status_code=500, detail=str(e))
HTTPException(op, e, obs) == Response(op, NoReq, ServerError, str(e), <<>>, obs)

\* Variant: the identifier is read from the key "id", which no stored
\* document has.
GameOut_noid(d) ==
    LET oid    == IF "id" \in DOMAIN d THEN Some(d["id"]) ELSE None
        withId == [k \in DOMAIN d \cup {"id"} |->
                      IF k = "id" THEN ObjectIdStr(oid) ELSE d[k]]
        popped == [k \in DOMAIN withId \ {"_id"} |-> withId[k]]
    IN  [k \in GameFields \cup {"id"} |-> popped[k]]

\* d["id"] = str(d.get("_id")); d.pop("_id", None); GameOut(**d)
GameOut(d) ==
    LET oid    == IF "_id" \in DOMAIN d THEN Some(d["_id"]) ELSE None
        withId == [k \in DOMAIN d \cup {"id"} |->
                      IF k = "id" THEN ObjectIdStr(oid) ELSE d[k]]
        popped == [k \in DOMAIN withId \ {"_id"} |-> withId[k]]
    IN  [k \in GameFields \cup {"id"} |-> popped[k]]
GameOutList(docs) == [k \in DOMAIN docs |-> GameOut(docs[k])]

\* filter_dict of list_games: {} unless q is a non-empty string.
FilterDict(q) ==
    IF q # None /\ Len(q[1]) > 0
    THEN ("$or" :> << ("title" :> ("$regex" :> q[1] @@ "$options" :> "i")),
                      ("genre" :> ("$regex" :> q[1] @@ "$options" :> "i")) >>)
    ELSE <<>>

\* Variant: the limit of the request is not passed on.
LimitParam_default(limit) == DefaultLimit

\* limit: int = 50
LimitParam(limit) == IF limit = None THEN DefaultLimit ELSE limit[1]

Idle(p) == [pc EXCEPT ![p] = "idle"]
NoLocals == [existing |-> <<>>, i |-> 0]

\* POST /api/games
create_game(p, payload, fault) ==
    /\ pc[p] = "idle"
    /\ Cardinality(created) < MaxCreates
    /\ LET r   == create_document(db, store, nextId, fault, payload)
       IN  IF r.raised
           THEN /\ last' = HTTPException("create_game", r.exc, NoObs)
                /\ UNCHANGED <<store, nextId, created>>
           ELSE /\ last' = Response("create_game", NoReq, 200, <<>>, [id |-> r.id], NoObs)
                /\ store' = r.coll
                /\ nextId' = nextId + 1
                /\ created' = created \cup {[id |-> r.id, payload |-> payload]}
    /\ UNCHANGED <<db, pc, loc, seedAborted>>

\* Variant: the normalisation (d["id"] = ..., d.pop("_id")) reaches the stored
\* documents themselves.
list_games_pop(p, q, limit, fault) ==
    /\ pc[p] = "idle"
    /\ \E reading \in Readings(LimitParam(limit)) :
       LET r   == get_documents(db, store, fault, FilterDict(q), LimitParam(limit), reading)
           req == [q |-> q, limit |-> limit]
       IN  /\ last' = IF r.raised
                      THEN HTTPException("list_games", r.exc, NoObs)
                      ELSE Response("list_games", req, 200, <<>>, GameOutList(r.docs), NoObs)
           /\ store' = IF r.raised THEN store
                       ELSE [k \in DOMAIN store |->
                               [f \in DOMAIN store[k] \ {"_id"} |-> store[k][f]]]
    /\ UNCHANGED <<db, nextId, pc, loc, created, seedAborted>>

\* GET /api/games?q=&limit=
list_games(p, q, limit, fault) ==
    /\ pc[p] = "idle"
    /\ \E reading \in Readings(LimitParam(limit)) :
       LET r   == get_documents(db, store, fault, FilterDict(q), LimitParam(limit), reading)
           req == [q |-> q, limit |-> limit]
       IN  last' = IF r.raised
                   THEN HTTPException("list_games", r.exc, NoObs)
                   ELSE Response("list_games", req, 200, <<>>, GameOutList(r.docs), NoObs)
    /\ UNCHANGED <<db, store, nextId, pc, loc, created, seedAborted>>

\* Variant: the samples are inserted whatever the probe read.
seed_probe_always(p, fault) ==
    /\ pc[p] = "idle"
    /\ LET r == get_documents(db, store, fault, <<>>, ProbeLimit, "cap")
       IN  IF r.raised
           THEN /\ last' = HTTPException("seed_sample_games", r.exc, NoObs)
                /\ UNCHANGED <<pc, loc>>
           ELSE /\ loc' = [loc EXCEPT ![p] = [existing |-> r.docs, i |-> 1]]
                /\ pc' = [pc EXCEPT ![p] = "seed_insert"]
                /\ UNCHANGED last
    /\ UNCHANGED <<db, store, nextId, created, seedAborted>>

\* GET /api/games/sample, first step: existing = get_documents("game", limit=1)
\* and the test `if not existing`.
seed_probe(p, fault) ==
    /\ pc[p] = "idle"
    /\ LET r == get_documents(db, store, fault, <<>>, ProbeLimit, "cap")
       IN  IF r.raised
           THEN /\ last' = HTTPException("seed_sample_games", r.exc, NoObs)
                /\ UNCHANGED <<pc, loc>>
           ELSE /\ loc' = [loc EXCEPT ![p] = [existing |-> r.docs, i |-> 1]]
                /\ pc' = [pc EXCEPT ![p] =
                              IF Len(r.docs) = 0 THEN "seed_insert" ELSE "seed_list"]
                /\ UNCHANGED last
    /\ UNCHANGED <<db, store, nextId, created, seedAborted>>

\* Variant: every turn of the loop takes the first sample.
SampleAt_first(i) == samples[1]

\* for g in samples: the g of turn i
SampleAt(i) == samples[i]

\* Variant: a sample whose title is already stored is not inserted again.
seed_create_if_absent(handle, coll, oid, fault, g) ==
    IF handle # Disconnected /\ ~fault.raised /\ \E k \in DOMAIN coll : coll[k].title = g.title
    THEN [raised |-> FALSE, exc |-> NoFault, coll |-> coll, id |-> <<>>]
    ELSE create_document(handle, coll, oid, fault, g)

\* create_document("game", g) of the seeding loop
seed_create(handle, coll, oid, fault, g) == create_document(handle, coll, oid, fault, g)

\* Variant: a failing insert is passed over and the loop goes on.
seed_insert_skip(p, fault) ==
    /\ pc[p] = "seed_insert"
    /\ LET i == loc[p].i
           r == seed_create(db, store, nextId, fault, SampleAt(i))
       IN  /\ IF r.raised
              THEN UNCHANGED <<store, nextId>>
              ELSE store' = r.coll /\ nextId' = nextId + 1
           /\ loc' = [loc EXCEPT ![p].i = i + 1]
           /\ pc' = [pc EXCEPT ![p] =
                         IF i = Len(samples) THEN "seed_list" ELSE "seed_insert"]
           /\ UNCHANGED <<last, seedAborted>>
    /\ UNCHANGED <<db, created>>

\* One turn of `for g in samples: create_document("game", g)`.
seed_insert(p, fault) ==
    /\ pc[p] = "seed_insert"
    /\ LET i == loc[p].i
           r == seed_create(db, store, nextId, fault, SampleAt(i))
       IN  IF r.raised
           THEN /\ last' = HTTPException("seed_sample_games", r.exc,
                                         [existing |-> loc[p].existing, inserted |-> i - 1])
                /\ pc' = Idle(p)
                /\ loc' = [loc EXCEPT ![p] = NoLocals]
                /\ seedAborted' = (seedAborted \/ i > 1)
                /\ UNCHANGED <<store, nextId>>
           ELSE /\ store' = r.coll
                /\ nextId' = nextId + 1
                /\ loc' = [loc EXCEPT ![p].i = i + 1]
                /\ pc' = [pc EXCEPT ![p] =
                              IF i = Len(samples) THEN "seed_list" ELSE "seed_insert"]
                /\ UNCHANGED <<last, seedAborted>>
    /\ UNCHANGED <<db, created>>

\* Last step: docs = get_documents("game", limit=50) and the returned listing.
seed_listing(p, fault) ==
    /\ pc[p] = "seed_list"
    /\ LET r   == get_documents(db, store, fault, <<>>, SeedListLimit, "cap")
           obs == [existing |-> loc[p].existing, inserted |-> loc[p].i - 1]
       IN  last' = IF r.raised
                   THEN HTTPException("seed_sample_games", r.exc, obs)
                   ELSE Response("seed_sample_games", NoReq, 200, <<>>,
                                 GameOutList(r.docs), obs)
    /\ pc' = Idle(p)
    /\ loc' = [loc EXCEPT ![p] = NoLocals]
    /\ UNCHANGED <<db, store, nextId, created, seedAborted>>

seed_sample_games(p) ==
    \E fault \in Faults :
        \/ seed_probe(p, fault)
        \/ seed_insert(p, fault)
        \/ seed_listing(p, fault)

\* db.list_collection_names(): "game" exists once it holds a document; the
\* database may hold other collections.
OtherCollections == { <<>>, [k \in 1..ManyCollections |-> <<"collection", k>>] }
list_collection_names(coll, others) ==
    (IF Len(coll) > 0 THEN << <<"game">> >> ELSE <<>>) \o others

\* Variant: the list of collections is not cut.
ShownCollections_all(collections) == collections

\* response["collections"] = collections[:10]
ShownCollections(collections) == Take(collections, MaxCollectionsShown)

\* A status string: a fixed text followed by (a slice of) a message.
Status(text, tail) == [text |-> text, tail |-> tail]

\* What reading db.name (hasattr(db, 'name'), db.name) can meet: nothing, or
\* an exception with a short or a long message.
NameFaults == { NoFault,
                Exception(<<"n","a","m","e"," ","f","a","i","l","e","d">>),
                Exception([k \in 1..LongMsgLen |-> "x"]) }

\* GET /test.  nameFault: what reading the handle's `name` (line 45) meets;
\* fault: what db.list_collection_names() (line 48) meets.  An exception of
\* line 45 leaves the inner try unentered and is caught by the outer except
\* (lines 56-57); one of line 48 is caught by the inner except (lines 51-52).
\* database_name is given the handle's name and then overwritten at line 61.
\* The handler is a plain `def`: it is run on a worker thread, whatever the
\* async handlers of the process are in the middle of, so it has no guard.
test_database(others, nameFault, fault, urlSet, nameSet) ==
    /\ LET r0 == [database |-> Status("[X] Not Available", <<>>),
                  database_url |-> "None", database_name |-> "None",
                  connection_status |-> "Not Connected", collections |-> <<>>]
           r1 == IF db # Disconnected
                 THEN LET a == [r0 EXCEPT !.database = Status("[OK] Available", <<>>),
                                          !.database_url = "[OK] Configured"]
                          b == [a EXCEPT !.database_name = "db.name",
                                         !.connection_status = "Connected"]
                      IN  IF nameFault.raised
                          THEN [a EXCEPT !.database =
                                   Status("[X] Error: ", Take(str(nameFault), MaxErrChars))]
                          ELSE IF fault.raised
                          THEN [b EXCEPT !.database =
                                   Status("[!]  Connected but Error: ",
                                          Take(str(fault), MaxErrChars))]
                          ELSE [b EXCEPT !.collections =
                                   ShownCollections(list_collection_names(store, others)),
                                         !.database = Status("[OK] Connected & Working", <<>>)]
                 ELSE [r0 EXCEPT !.database =
                          Status("[!]  Available but not initialized", <<>>)]
           r2 == [r1 EXCEPT !.database_url = IF urlSet THEN "[OK] Set" ELSE "[X] Not Set",
                            !.database_name = IF nameSet THEN "[OK] Set" ELSE "[X] Not Set"]
       IN  last' = Response("test_database", NoReq, 200, <<>>, r2, NoObs)
    /\ UNCHANGED <<db, store, nextId, pc, loc, created, seedAborted>>

(***************************************************************************)
(* Specifications.                                                         *)
(***************************************************************************)
\* The handle `db` is bound when the module is imported: a handle, or None.
Init ==
    /\ db \in {Connected, Disconnected}
    /\ store = <<>>
    /\ nextId = 1
    /\ pc = [p \in Procs |-> "idle"]
    /\ loc = [p \in Procs |-> NoLocals]
    /\ last = Response("none", NoReq, 0, <<>>, <<>>, NoObs)
    /\ created = {}
    /\ seedAborted = FALSE

Handle(p) ==
    \/ \E payload \in Payloads, fault \in Faults : create_game(p, payload, fault)
    \/ \E q \in Terms, limit \in Limits, fault \in Faults : list_games(p, q, limit, fault)
    \/ seed_sample_games(p)
    \/ \E others \in OtherCollections, nameFault \in NameFaults, fault \in Faults,
          urlSet \in BOOLEAN, nameSet \in BOOLEAN :
           test_database(others, nameFault, fault, urlSet, nameSet)

\* One server process (uvicorn.run(app) of __main__): an async handler has no
\* await in it, so it runs to its end before the next async request is taken
\* up; only test_database, run on a worker thread, can fall between its steps.
Server == CHOOSE p \in Procs : TRUE
Next == Handle(Server)
Spec == Init /\ [][Next]_vars

\* Several worker processes against the one store: the store calls of their
\* create, seed and diagnostics requests interleave (the diagnostics of a
\* database holding no other collection, with both environment variables set).
RaceHandle(p) ==
    \/ \E payload \in Payloads, fault \in Faults : create_game(p, payload, fault)
    \/ seed_sample_games(p)
    \/ \E fault \in Faults : test_database(<<>>, NoFault, fault, TRUE, TRUE)
NextRace == \E p \in Procs : RaceHandle(p)
SpecRace == Init /\ [][NextRace]_vars

\* The same server started on a collection that earlier requests filled:
\* empty, just under and just over the default limit.
BulkStore(n) == [k \in 1..n |-> DrMario @@ ("_id" :> k)]
InitBulk ==
    /\ db = Connected
    /\ \E n \in {0, DefaultLimit - 1, DefaultLimit + 1} :
           /\ store = BulkStore(n)
           /\ nextId = n + 1
    /\ pc = [p \in Procs |-> "idle"]
    /\ loc = [p \in Procs |-> NoLocals]
    /\ last = Response("none", NoReq, 0, <<>>, <<>>, NoObs)
    /\ created = {}
    /\ seedAborted = FALSE
SpecBulk == InitBulk /\ [][Next]_vars

(***************************************************************************)
(* Properties.                                                             *)
(***************************************************************************)
SampleTitles ==
    << <<"S","t","a","r","l","i","g","h","t"," ","O","d","y","s","s","e","y">>,
       <<"N","e","o","n"," ","D","r","i","f","t">>,
       <<"E","c","h","o","e","s"," ","o","f"," ","E","l","d","o","r","i","a">> >>
Titles(docs) == [k \in DOMAIN docs |-> docs[k].title]
IsSeed(r) == r.op = "seed_sample_games"
IsList(r) == r.op = "list_games"
Ok(r) == r.status = 200
\* term occurs in s as a substring, letters compared without case
ContainsCI(s, term) ==
    \E off \in 0..(Len(s) - Len(term)) :
        \A j \in 1..Len(term) : Lower(term[j]) = Lower(s[off + j])
CountOf(title) == Cardinality({k \in DOMAIN store : store[k].title = title})
SeedStep(p) == seed_sample_games(p)
\* the step is a list_games request with these arguments
ListStep(q, limit) == \E fault \in Faults : list_games(Server, q, limit, fault)

\* C1: a seed call whose probe read finds at least one document inserts
\* nothing: from its probe to its answer no step of that call changes the
\* stored records or enters the insertion loop, and it reports 0 insertions.
C1_SeedNoOpWhenNonEmpty ==
    [][\A p \in Procs :
          /\ (pc[p] = "idle" /\ Len(store) > 0 /\ SeedStep(p))
                => (store' = store /\ pc'[p] # "seed_insert")
          /\ (pc[p] # "idle" /\ Len(loc[p].existing) > 0 /\ SeedStep(p))
                => (store' = store /\ pc'[p] = "idle" /\ last'.obs.inserted = 0)
      ]_vars
\* one create_game, then a seed call that answered: still exactly one record
C1_Witness ==
    /\ IsSeed(last) /\ Ok(last)
    /\ Len(last.obs.existing) = 1 /\ last.obs.inserted = 0
    /\ Len(store) = 1 /\ Cardinality(created) = 1
    /\ Len(last.body) = 1

\* C2: with one request at a time, a seed call that finds the collection empty
\* and answers without error has inserted exactly three records, titled
\* Starlight Odyssey, Neon Drift, Echoes of Eldoria in that order, and its
\* listing is exactly those three records.
C2_SeedInsertsThreeSamples ==
    [][\A fault \in Faults :
          (seed_listing(Server, fault) /\ Len(loc[Server].existing) = 0 /\ Ok(last'))
             => /\ last'.obs.inserted = 3
                /\ Titles(store') = SampleTitles
                /\ Titles(last'.body) = SampleTitles
                /\ \A k \in 1..3 : last'.body[k].id = ObjectIdStr(Some(store'[k]["_id"]))
      ]_vars
C2_Witness ==
    /\ IsSeed(last) /\ Ok(last)
    /\ Len(last.obs.existing) = 0 /\ last.obs.inserted = 3
    /\ Titles(store) = SampleTitles
    /\ Len(last.body) = 3

\* C3: nothing excludes two seed calls from each other: when two workers have
\* both read the collection as empty and both finished the insertion loop,
\* every sample title is stored at least twice (duplicate sample sets).
C3_RaceDuplicatesSamples ==
    \A p \in Procs : \A o \in Procs \ {p} :
        ( /\ pc[p] = "seed_list" /\ Len(loc[p].existing) = 0
          /\ pc[o] = "seed_list" /\ Len(loc[o].existing) = 0 )
        => /\ Len(store) >= 6
           /\ \A k \in 1..3 : CountOf(SampleTitles[k]) >= 2
\* both probes saw "empty", both inserted: six records, each title twice
C3_Witness ==
    /\ \A p \in Procs : pc[p] = "seed_list" /\ Len(loc[p].existing) = 0
    /\ Len(store) = 6
    /\ \A k \in 1..3 : CountOf(SampleTitles[k]) = 2

\* C4: a match-all list_games whose limit covers the collection returns, for
\* every record create_game accepted, an entry with the same fields, no `_id`
\* field, and as `id` the non-empty string create_game returned, which no
\* other returned entry carries.
C4_CreatedIsListed ==
    [][( /\ IsList(last') /\ Ok(last')
         /\ last'.req.q \in {None, Some(<<>>)}
         /\ LimitParam(last'.req.limit) >= Len(store)
         /\ ListStep(last'.req.q, last'.req.limit) )
          => \A c \in created :
                \E k \in DOMAIN last'.body :
                   LET g == last'.body[k]
                   IN  /\ g.id = c.id /\ Len(g.id) > 0
                       /\ DOMAIN g = GameFields \cup {"id"}
                       /\ \A f \in GameFields : g[f] = c.payload[f]
                       /\ \A j \in DOMAIN last'.body \ {k} : last'.body[j].id # g.id
      ]_vars
\* the same payload created twice, then listed with all its neighbours
C4_Witness ==
    /\ IsList(last) /\ Ok(last) /\ last.req.q = None /\ last.req.limit = None
    /\ Cardinality(created) = 2
    /\ \E c \in created, e \in created : c.id # e.id /\ c.payload = e.payload
    /\ Len(last.body) = 5 /\ Len(store) = 5

\* the record a search for q is meant to return
Wanted(d, q) ==
    IF q = None \/ Len(q[1]) = 0 THEN TRUE
    ELSE ContainsCI(d.title, q[1]) \/ ContainsCI(d.genre, q[1])

\* C5: list_games with a search term returns exactly the stored records whose
\* title or genre contains the term as a substring, letters compared without
\* case (up to the limit); without a term (absent or empty) all records.
C5_FilterIsSubstringMatch ==
    [][(IsList(last') /\ Ok(last') /\ ListStep(last'.req.q, last'.req.limit))
          => LET q    == last'.req.q
                 want == {ObjectIdStr(Some(store[k]["_id"])) :
                             k \in {j \in DOMAIN store : Wanted(store[j], q)}}
                 got  == {last'.body[k].id : k \in DOMAIN last'.body}
             IN  /\ got \subseteq want
                 /\ LimitParam(last'.req.limit) >= 1
                       => Cardinality(got) = Min(LimitParam(last'.req.limit),
                                                 Cardinality(want))
      ]_vars

\* C6 as claimed: for every limit value n, list_games returns at most n
\* records and exactly min(n, number of matching records), the limit being 50
\* when none is given, and the listing of a seed call holds min(50, number of
\* stored records) records.
C6_LimitBoundsCountAnyLimit ==
    [][/\ (IsList(last') /\ Ok(last') /\ ListStep(last'.req.q, last'.req.limit))
             => LET limit == last'.req.limit
                    n == IF limit = None THEN 50 ELSE limit[1]
                    matching == {k \in DOMAIN store :
                                    MatchesFilter(store[k], FilterDict(last'.req.q))}
                IN  /\ Len(last'.body) <= n
                    /\ Len(last'.body) = Min(n, Cardinality(matching))
       /\ (IsSeed(last') /\ Ok(last') /\ \E fault \in Faults : seed_listing(Server, fault))
             => Len(last'.body) = Min(50, Len(store))
      ]_vars

\* C6 (amended): for every limit value n >= 1, list_games returns at most n
\* records and exactly min(n, number of matching records), the limit being 50
\* when none is given, and the listing of a seed call holds min(50, number of
\* stored records) records.
C6_LimitBoundsCount ==
    [][/\ ( /\ IsList(last') /\ Ok(last')
            /\ (last'.req.limit = None \/ last'.req.limit[1] >= 1)
            /\ ListStep(last'.req.q, last'.req.limit) )
             => LET limit == last'.req.limit
                    n == IF limit = None THEN 50 ELSE limit[1]
                    matching == {k \in DOMAIN store :
                                    MatchesFilter(store[k], FilterDict(last'.req.q))}
                IN  /\ Len(last'.body) <= n
                    /\ Len(last'.body) = Min(n, Cardinality(matching))
       /\ (IsSeed(last') /\ Ok(last') /\ \E fault \in Faults : seed_listing(Server, fault))
             => Len(last'.body) = Min(50, Len(store))
      ]_vars
\* more than 50 stored records, no limit given: 50 returned
C6_Witness ==
    /\ IsList(last) /\ Ok(last) /\ last.req.limit = None /\ last.req.q = None
    /\ Len(store) > 50
    /\ Len(last.body) = 50

\* C7: test_database always answers (it never raises); when the handle is
\* absent, reading the handle fails or list_collection_names fails, its
\* `database` field is not the success text, and `collections` never holds
\* more than 10 names.
C7_DiagnosticsNeverRaise ==
    [][\A others \in OtherCollections, nameFault \in NameFaults, fault \in Faults,
         urlSet \in BOOLEAN, nameSet \in BOOLEAN :
          test_database(others, nameFault, fault, urlSet, nameSet)
          => /\ last'.op = "test_database" /\ Ok(last')
             /\ Len(last'.body.collections) <= 10
             /\ (db = Disconnected \/ nameFault.raised \/ fault.raised)
                   => /\ last'.body.database.text # "[OK] Connected & Working"
                      /\ Len(last'.body.collections) = 0
      ]_vars
\* a connected handle whose store call failed: the error status, with the
\* message cut to 50 characters
C7_Witness ==
    /\ last.op = "test_database" /\ Ok(last) /\ db = Connected
    /\ last.body.database.text = "[!]  Connected but Error: "
    /\ Len(last.body.database.tail) = 50

\* C8: a gateway call that fails inside create_game, list_games or
\* seed_sample_games ends the request with status 500 and the failure's
\* message as detail, no body, no second attempt (the store is as it was and
\* the handler is finished); a Disconnected gateway stays Disconnected, and
\* every gateway call made while Disconnected fails this way.
C8_FailuresSurfaceAs500 ==
    [][/\ (db = Disconnected) => (db' = Disconnected)
       /\ \A fault \in Faults :
             LET failing == (db = Disconnected) \/ fault.raised
                 msg     == IF db = Disconnected THEN DbUnavailable.msg ELSE fault.msg
                 step    == \/ \E payload \in Payloads : create_game(Server, payload, fault)
                            \/ \E q \in Terms, limit \in Limits :
                                   list_games(Server, q, limit, fault)
                            \/ seed_probe(Server, fault)
                            \/ seed_insert(Server, fault)
                            \/ seed_listing(Server, fault)
             IN  (failing /\ step)
                 => /\ last'.status = 500
                    /\ last'.detail = msg
                    /\ Len(last'.body) = 0
                    /\ store' = store /\ nextId' = nextId
                    /\ pc'[Server] = "idle"
      ]_vars
\* a request served while Disconnected
C8_Witness ==
    /\ db = Disconnected
    /\ last.op = "create_game" /\ last.status = 500
    /\ last.detail = DbUnavailable.msg
    /\ Len(store) = 0

\* C9: the stored (id, record) pairs only grow: every step keeps each stored
\* record and its identifier as they are, a new record gets an identifier no
\* stored record has, and list_games and test_database steps leave the store
\* unchanged.
C9_StoreOnlyGrows ==
    [][/\ Len(store') >= Len(store)
       /\ \A k \in DOMAIN store : store'[k] = store[k]
       /\ \A k \in DOMAIN store' \ DOMAIN store :
             /\ "_id" \in DOMAIN store'[k]
             /\ \A j \in DOMAIN store' \ {k} : store'[j]["_id"] # store'[k]["_id"]
       /\ (store' # store)
             => ~ \E fault \in Faults :
                   \/ \E q \in Terms, limit \in Limits : list_games(Server, q, limit, fault)
                   \/ \E others \in OtherCollections, nameFault \in NameFaults,
                         urlSet \in BOOLEAN, nameSet \in BOOLEAN :
                          test_database(others, nameFault, fault, urlSet, nameSet)
      ]_vars
\* five stored records, just listed with limit 2
C9_Witness ==
    /\ IsList(last) /\ Ok(last) /\ last.req.limit = Some(2)
    /\ Len(last.body) = 2
    /\ Len(store) = 5
    /\ \A k \in DOMAIN store : store[k]["_id"] = k

\* a occurs in b as a subsequence (in order, not necessarily adjacent)
RECURSIVE IsSubSeq(_, _)
IsSubSeq(a, b) ==
    IF Len(a) = 0 THEN TRUE
    ELSE IF Len(b) = 0 THEN FALSE
    ELSE IF Head(a) = Head(b) THEN IsSubSeq(Tail(a), Tail(b))
    ELSE IsSubSeq(a, Tail(b))

\* C10 as claimed: a seed call adds the samples in order and stops at the first
\* insert that fails; and once a call has stopped after at least one insert,
\* the missing samples are never added by seeding: no step of any seed call
\* changes the collection any more.
C10_AbortedSeedNeverCompleted ==
    [][/\ \A p \in Procs, fault \in Faults :
             seed_insert(p, fault)
             => IF db = Disconnected \/ fault.raised
                THEN store' = store /\ last'.status = 500 /\ pc'[p] = "idle"
                ELSE /\ Len(store') = Len(store) + 1
                     /\ store'[Len(store')].title = SampleTitles[loc[p].i]
       /\ \A p \in Procs : (seedAborted /\ SeedStep(p)) => store' = store
      ]_vars

\* C10 (amended): a seed call adds the samples one at a time in the fixed
\* order and stops at the first insert that fails, so what it has added is
\* always the first i-1 samples, and the call answers with an error when an
\* insert failed; the samples inserted before the failure stay stored, and every
\* seed call whose probe read comes after such a failure inserts nothing.
\* (Only a call whose probe read the collection as empty before can still add
\* samples; with one request at a time there is none.)
C10_SeedIsPrefixClosed ==
    /\ [][/\ \A p \in Procs, fault \in Faults :
                seed_insert(p, fault)
                => LET i == loc[p].i
                   IN  IF db = Disconnected \/ fault.raised
                       THEN /\ store' = store
                            /\ last'.status = 500 /\ last'.obs.inserted = i - 1
                            /\ pc'[p] = "idle"
                       ELSE /\ Len(store') = Len(store) + 1
                            /\ SubSeq(store', 1, Len(store)) = store
                            /\ store'[Len(store')].title = SampleTitles[i]
                            /\ loc'[p].i = i + 1
          /\ \A k \in DOMAIN store : Len(store') >= k /\ store'[k] = store[k]
          /\ \A p \in Procs :
                (seedAborted /\ pc[p] = "idle" /\ SeedStep(p))
                => (store' = store /\ pc'[p] # "seed_insert")
         ]_vars
    /\ [](/\ \A p \in Procs :
                (pc[p] # "idle" /\ Len(loc[p].existing) = 0)
                => /\ loc[p].i \in 1..4
                   /\ (pc[p] = "seed_list") => (loc[p].i = 4)
                   /\ IsSubSeq(SubSeq(SampleTitles, 1, loc[p].i - 1), Titles(store))
          /\ seedAborted => Len(store) > 0)
\* a call stopped after Starlight Odyssey; a later seed call answered with the
\* one record and inserted nothing
C10_Witness ==
    /\ seedAborted
    /\ IsSeed(last) /\ Ok(last) /\ last.obs.inserted = 0
    /\ Len(last.obs.existing) = 1
    /\ Titles(store) = SubSeq(SampleTitles, 1, 1)

====
